---- MODULE Spec2Model ----
(***************************************************************************)
(* Dual-curve swap pricer of run_gemini.py: bootstrap of the IBOR and      *)
(* discount zero curves by bisection, par rate / PV / DV01 / Gamma of the  *)
(* 9Y swap, the valuation three months later, and the natural cubic        *)
(* spline.                                                                 *)
(*                                                                         *)
(* Numbers.  A Python float is modelled as a fixed-point integer counting  *)
(* millionths (ONE = 1.0); every multiplication and division rounds, as a  *)
(* float operation does, only coarser.  A time is an integer number of     *)
(* quarter years (0.25 -> 1, 0.5 -> 2, 1 year -> 4), which represents      *)
(* every time the program uses exactly.                                    *)
(***************************************************************************)
EXTENDS Integers, Sequences, FiniteSets, TLC

\* 1.0 in fixed point, and its square root (used to multiply in two halves
\* so that no intermediate product leaves the 32-bit range).
ONE == 10^6
HALFSCALE == 10^3

\* Quarter years per year: Q(1) is the time 1.0
Q(years) == 4 * years

Abs(x) == IF x < 0 THEN -x ELSE x

\* a * b for fixed-point a, b, rounded to the nearest millionth.
\* a = ah*1000 + al, b = bh*1000 + bl with 0 <= al, bl < 1000.
Mul(a, b) ==
    LET ah == a \div HALFSCALE
        al == a % HALFSCALE
        bh == b \div HALFSCALE
        bl == b % HALFSCALE
        cross == ah * bl + al * bh
    IN  ah * bh + (cross + (al * bl + ONE \div 2) \div HALFSCALE) \div HALFSCALE

\* a * b < 0: the float product of two objective values neither overflows
\* nor underflows, so its sign is the product of the signs.
ProductNegative(a, b) == (a < 0 /\ b > 0) \/ (a > 0 /\ b < 0)

\* a / b for fixed-point a and b > 0 (b < 21.0), rounded down: long division,
\* two decimal digits at a time.
Div(a, b) ==
    LET q1 == a \div b
        r1 == a % b
        q2 == (r1 * 100) \div b
        r2 == (r1 * 100) % b
        q3 == (r2 * 100) \div b
        r3 == (r2 * 100) % b
        q4 == (r3 * 100) \div b
    IN  q1 * ONE + q2 * 10000 + q3 * 100 + q4

\* math.exp(x): the power series 1 + x(1 + x/2(1 + x/3(...))) to ExpTerms
\* terms, evaluated inside out.
ExpTerms == 12

RECURSIVE ExpHorner(_, _)
ExpHorner(x, k) ==
    IF k > ExpTerms THEN ONE
    ELSE ONE + Mul(x, ExpHorner(x, k + 1)) \div k

Exp(x) == ExpHorner(x, 1)

(***************************************************************************)
(* Market data (lines 6-8).  rates_input is an input of the bootstrap: a   *)
(* map from the quoted tenor in years to its par rate; the program's own   *)
(* quotes are QuotesLiteral.                                               *)
(***************************************************************************)
fixing_6m == 41100
spread_discount == -3800

Tenors == {1, 2, 3, 5, 7, 10}

QuotesLiteral ==
    (1 :> 41400) @@ (2 :> 37300) @@ (3 :> 34800) @@
    (5 :> 32100) @@ (7 :> 31100) @@ (10 :> 30800)

\* a flat quote sheet
Flat(rate) == [T \in Tenors |-> rate]

QuoteSets ==
    { QuotesLiteral, Flat(50000), Flat(120000), Flat(-5000) }

VARIABLES
    rates_input,    \* the quoted par rates, by tenor
    zeros_ibor,     \* IBOR zero curve: time (quarters) -> zero rate
    zeros_disc,     \* discount zero curve: time (quarters) -> zero rate
    pc,             \* position in solve_questions
    todo,           \* tenors the bootstrap loop still has to visit, in order
    tenor,          \* tenor being solved
    low, high,      \* bisection bracket
    iter,           \* iterations of the bisection loop done for this tenor
    temp_ibor,      \* objective's copy of the IBOR curve in its last call
    temp_disc,      \* objective's copy of the discount curve in its last call
    rate_9y,        \* par rate of the 9Y swap
    val_base,       \* PV of the 9Y receiver swap on the base curves
    zeros_ibor_up, zeros_disc_up, val_up,   \* +1bp curves and PV
    zeros_ibor_dn, zeros_disc_dn, val_dn,   \* -1bp curves and PV
    dv01_per_1m,    \* dollars
    gamma_val,      \* dollars
    q3,             \* what price_q3 returned: acc_fix, acc_float, pv_dirty, pv_clean
    y_vals,         \* spline knot values, indexed from 0
    M,              \* spline second derivatives at the knots, indexed from 0
    rate_9y_spline, \* 9Y par rate on the spline curve
    q4,             \* spline valuation: acc_fix, acc_float, pv_dirty, pv_clean
    q_curve,        \* curve a discount-factor query is made against
    q_call,         \* the last query: its routine, time and outcome
    q_rate,         \* zero rate the last query interpolated
    q_df            \* discount factor the last query returned

(***************************************************************************)
(* Dictionaries keyed by time                                              *)
(***************************************************************************)
Put(d, k, v) == [x \in (DOMAIN d) \cup {k} |-> IF x = k THEN v ELSE d[x]]

MinOf(S) == CHOOSE x \in S : \A y \in S : x <= y
MaxOf(S) == CHOOSE x \in S : \A y \in S : x >= y

\* get_rate without the interpolation: between two knots the rate of the
\* knot to the left
get_rate_step(t, zero_curve) ==
    LET times == DOMAIN zero_curve
        first == MinOf(times)
        last  == MaxOf(times)
    IN  IF t <= first THEN zero_curve[first]
        ELSE IF t >= last THEN zero_curve[last]
        ELSE zero_curve[MaxOf({x \in times : x <= t})]

\* The zero rate get_df reads off zero_curve at time t (lines 20-32)
get_rate(t, zero_curve) ==
    LET times == DOMAIN zero_curve
        first == MinOf(times)
        last  == MaxOf(times)
    IN  IF t <= first THEN zero_curve[first]
        ELSE IF t >= last THEN zero_curve[last]
        ELSE IF t \in times THEN zero_curve[t]
        ELSE LET t1 == MaxOf({x \in times : x <= t})
                 t2 == MinOf({x \in times : x > t})
                 r1 == zero_curve[t1]
                 r2 == zero_curve[t2]
             IN  r1 + ((r2 - r1) * (t - t1)) \div (t2 - t1)

\* get_df with the sign of the exponent lost: math.exp(r * t)
get_df_growing(t, zero_curve) == Exp((get_rate(t, zero_curve) * t) \div 4)

\* math.exp(-r * t), t in quarters
get_df(t, zero_curve) == Exp((-(get_rate(t, zero_curve)) * t) \div 4)

\* math.exp(spread_discount * t), t in quarters
SpreadFactor(t) == Exp((spread_discount * t) \div 4)

(***************************************************************************)
(* objective (lines 39-67)                                                 *)
(***************************************************************************)
objective_temp_ibor(z_ibor_guess, T) == Put(zeros_ibor, Q(T), z_ibor_guess)
\* the trial discount point without the spread
objective_temp_disc_no_spread(z_ibor_guess, T) == Put(zeros_disc, Q(T), z_ibor_guess)

objective_temp_disc(z_ibor_guess, T) == Put(zeros_disc, Q(T), z_ibor_guess + spread_discount)

\* for t in range(1, tenor + 1): pv_fix += swap_rate * 1.0 * get_df(t, temp_disc)
RECURSIVE objective_pv_fix(_, _, _)
objective_pv_fix(t, swap_rate, disc) ==
    IF t < 1 THEN 0
    ELSE objective_pv_fix(t - 1, swap_rate, disc) + Mul(swap_rate, get_df(Q(t), disc))

\* the term the loop over i in range(2, tenor*2 + 1) adds for period i
FloatTerm(t_curr, t_prev, disc) ==
    LET df_c_disc == get_df(t_curr, disc)
        df_p_disc == get_df(t_prev, disc)
        df_c_ibor == Mul(df_c_disc, SpreadFactor(t_curr))
        df_p_ibor == Mul(df_p_disc, SpreadFactor(t_prev))
        fwd == (Div(df_p_ibor, df_c_ibor) - ONE) * 2
    IN  Mul(fwd \div 2, df_c_disc)

RECURSIVE objective_pv_float(_, _)
objective_pv_float(i, disc) ==
    IF i < 2 THEN Mul(fixing_6m \div 2, get_df(2, disc))
    ELSE objective_pv_float(i - 1, disc) + FloatTerm(2 * i, 2 * (i - 1), disc)

objective(z_ibor_guess, T, swap_rate) ==
    LET disc == objective_temp_disc(z_ibor_guess, T)
    IN  objective_pv_float(2 * T, disc) - objective_pv_fix(T, swap_rate, disc)


(***************************************************************************)
(* The bootstrap loop (lines 35-79)                                        *)
(***************************************************************************)
\* the keys in descending order
RECURSIVE SortedKeysDescending(_)
SortedKeysDescending(S) ==
    IF S = {} THEN <<>>
    ELSE LET m == MaxOf(S) IN <<m>> \o SortedKeysDescending(S \ {m})

\* sorted(rates_input.keys())
RECURSIVE SortedKeys(_)
SortedKeys(S) ==
    IF S = {} THEN <<>>
    ELSE LET m == MinOf(S) IN <<m>> \o SortedKeys(S \ {m})

\* low, high = 0.0, 0.10 and range(50)
BracketLow == 0
BracketHigh == 100000
MaxIter == 50

EmptyCurve == [x \in {} |-> 0]

\* no query has been made
NoCall == [routine |-> "none", t |-> 0, outcome |-> "none"]

\* price_q3 has not run
NoResult == [acc_fix |-> 0, acc_float |-> 0, pv_dirty |-> 0, pv_clean |-> 0]

Init ==
    /\ rates_input \in QuoteSets
    /\ zeros_ibor = (2 :> fixing_6m)
    /\ zeros_disc = (2 :> (fixing_6m + spread_discount))
    /\ pc = "loop"
    /\ todo = SortedKeys(DOMAIN rates_input)
    /\ tenor = 0
    /\ low = BracketLow
    /\ high = BracketHigh
    /\ iter = 0
    /\ temp_ibor = EmptyCurve
    /\ temp_disc = EmptyCurve
    /\ rate_9y = 0
    /\ val_base = 0
    /\ zeros_ibor_up = EmptyCurve
    /\ zeros_disc_up = EmptyCurve
    /\ val_up = 0
    /\ zeros_ibor_dn = EmptyCurve
    /\ zeros_disc_dn = EmptyCurve
    /\ val_dn = 0
    /\ dv01_per_1m = 0
    /\ gamma_val = 0
    /\ q3 = NoResult
    /\ y_vals = <<>>
    /\ M = <<>>
    /\ rate_9y_spline = 0
    /\ q4 = NoResult
    /\ q_curve = EmptyCurve
    /\ q_call = NoCall
    /\ q_rate = 0
    /\ q_df = 0

\* for tenor in sorted(...): the loop takes its next tenor and resets the
\* bracket (lines 36-37, 70)
NextTenor ==
    /\ pc = "loop"
    /\ todo # <<>>
    /\ tenor' = Head(todo)
    /\ todo' = Tail(todo)
    /\ low' = BracketLow
    /\ high' = BracketHigh
    /\ iter' = 0
    /\ pc' = "bisect"
    /\ UNCHANGED <<rates_input, zeros_ibor, zeros_disc, temp_ibor, temp_disc,
                   rate_9y, val_base, zeros_ibor_up, zeros_disc_up, val_up,
                   zeros_ibor_dn, zeros_disc_dn, val_dn, dv01_per_1m, gamma_val, q3,
                   y_vals, M, rate_9y_spline, q4, q_curve, q_call, q_rate, q_df>>

\* one pass of the body of "for _ in range(50)" (lines 71-75)
BisectStep ==
    /\ pc = "bisect"
    /\ iter < MaxIter
    /\ LET swap_rate == rates_input[tenor]
           mid == (low + high) \div 2
           f_mid == objective(mid, tenor, swap_rate)
       IN  /\ temp_ibor' = objective_temp_ibor(mid, tenor)
           /\ temp_disc' = objective_temp_disc(mid, tenor)
           /\ IF f_mid = 0
              THEN /\ pc' = "store"
                   /\ UNCHANGED <<low, high, iter>>
              ELSE /\ IF ProductNegative(objective(low, tenor, swap_rate), f_mid)
                      THEN high' = mid /\ low' = low
                      ELSE low' = mid /\ high' = high
                   /\ iter' = iter + 1
                   /\ pc' = IF iter + 1 = MaxIter THEN "store" ELSE "bisect"
    /\ UNCHANGED <<rates_input, zeros_ibor, zeros_disc, todo, tenor,
                   rate_9y, val_base, zeros_ibor_up, zeros_disc_up, val_up,
                   zeros_ibor_dn, zeros_disc_dn, val_dn, dv01_per_1m, gamma_val, q3,
                   y_vals, M, rate_9y_spline, q4, q_curve, q_call, q_rate, q_df>>

\* the stores with the upper end of the bracket for z_solved
StoreSolvedHigh ==
    /\ pc = "store"
    /\ LET z_solved == high
       IN  /\ zeros_ibor' = Put(zeros_ibor, Q(tenor), z_solved)
           /\ zeros_disc' = Put(zeros_disc, Q(tenor), z_solved + spread_discount)
    /\ pc' = "loop"
    /\ UNCHANGED <<rates_input, todo, tenor, low, high, iter, temp_ibor, temp_disc,
                   rate_9y, val_base, zeros_ibor_up, zeros_disc_up, val_up,
                   zeros_ibor_dn, zeros_disc_dn, val_dn, dv01_per_1m, gamma_val, q3,
                   y_vals, M, rate_9y_spline, q4, q_curve, q_call, q_rate, q_df>>

\* z_solved = (low + high) / 2 and the two stores (lines 76-79)
StoreSolved ==
    /\ pc = "store"
    /\ LET z_solved == (low + high) \div 2
       IN  /\ zeros_ibor' = Put(zeros_ibor, Q(tenor), z_solved)
           /\ zeros_disc' = Put(zeros_disc, Q(tenor), z_solved + spread_discount)
    /\ pc' = "loop"
    /\ UNCHANGED <<rates_input, todo, tenor, low, high, iter, temp_ibor, temp_disc,
                   rate_9y, val_base, zeros_ibor_up, zeros_disc_up, val_up,
                   zeros_ibor_dn, zeros_disc_dn, val_dn, dv01_per_1m, gamma_val, q3,
                   y_vals, M, rate_9y_spline, q4, q_curve, q_call, q_rate, q_df>>

(***************************************************************************)
(* Question 2: par rate, PV, DV01 and Gamma of the 9Y swap (lines 93-147)  *)
(***************************************************************************)
Maturity == 9

\* 0.0001, one basis point
BP == 100

\* 1_000_000
Notional == 1000000

\* x * 1_000_000, in whole dollars, for a fixed-point x
TimesNotional(x) == x * (Notional \div ONE)

RECURSIVE par_pv_float(_, _)
par_pv_float(i, disc) ==
    IF i < 2 THEN Mul(fixing_6m \div 2, get_df(2, disc))
    ELSE LET t_curr == 2 * i
             t_prev == 2 * (i - 1)
             df_c == get_df(t_curr, disc)
             df_p == get_df(t_prev, disc)
             df_c_i == Mul(df_c, SpreadFactor(t_curr))
             df_p_i == Mul(df_p, SpreadFactor(t_prev))
             fwd == (Div(df_p_i, df_c_i) - ONE) * 2
         IN  par_pv_float(i - 1, disc) + Mul(fwd \div 2, df_c)

RECURSIVE par_pv01(_, _)
par_pv01(t, disc) ==
    IF t < 1 THEN 0
    ELSE par_pv01(t - 1, disc) + get_df(Q(t), disc)

price_swap_par_rate(maturity, curves) ==
    Div(par_pv_float(2 * maturity, curves.disc), par_pv01(maturity, curves.disc))

RECURSIVE value_pv_fix(_, _, _)
value_pv_fix(t, fixed_rate, disc) ==
    IF t < 1 THEN 0
    ELSE value_pv_fix(t - 1, fixed_rate, disc) + Mul(fixed_rate, get_df(Q(t), disc))

RECURSIVE value_pv_float(_, _)
value_pv_float(i, disc) ==
    IF i < 2 THEN Mul(fixing_6m \div 2, get_df(2, disc))
    ELSE LET t_curr == 2 * i
             t_prev == 2 * (i - 1)
             df_c == get_df(t_curr, disc)
             df_p == get_df(t_prev, disc)
             df_c_i == Mul(df_c, SpreadFactor(t_curr))
             df_p_i == Mul(df_p, SpreadFactor(t_prev))
             fwd == (Div(df_p_i, df_c_i) - ONE) * 2
         IN  value_pv_float(i - 1, disc) + Mul(fwd \div 2, df_c)

\* receiver swap: receive fixed, pay float
value_existing_swap(fixed_rate, maturity, curves) ==
    value_pv_fix(maturity, fixed_rate, curves.disc) - value_pv_float(2 * maturity, curves.disc)

Curves(ibor, disc) == [ibor |-> ibor, disc |-> disc]

\* {k: v + by for k, v in curve.items()}
ShockedCurve(curve, by) == [k \in DOMAIN curve |-> curve[k] + by]

\* (val_up - 2*val_base + val_dn) / (0.0001**2) * 1_000_000 in dollars.
\* x millionths divided by 1e-8 are x * 100 whole units.
GammaOf(up, base, dn) == ((up - 2 * base + dn) * (ONE \div (BP * BP))) * Notional

\* the loop has run out of tenors; rate_9y = price_swap_par_rate(9, ...)
\* (line 113)
ParRate9y ==
    /\ pc = "loop"
    /\ todo = <<>>
    /\ rate_9y' = price_swap_par_rate(Maturity, Curves(zeros_ibor, zeros_disc))
    /\ pc' = "val_base"
    /\ UNCHANGED <<rates_input, zeros_ibor, zeros_disc, todo, tenor, low, high, iter,
                   temp_ibor, temp_disc, val_base, zeros_ibor_up, zeros_disc_up, val_up,
                   zeros_ibor_dn, zeros_disc_dn, val_dn, dv01_per_1m, gamma_val, q3,
                   y_vals, M, rate_9y_spline, q4, q_curve, q_call, q_rate, q_df>>

\* line 135
ValueBase ==
    /\ pc = "val_base"
    /\ val_base' = value_existing_swap(rate_9y, Maturity, Curves(zeros_ibor, zeros_disc))
    /\ pc' = "shock_up"
    /\ UNCHANGED <<rates_input, zeros_ibor, zeros_disc, todo, tenor, low, high, iter,
                   temp_ibor, temp_disc, rate_9y, zeros_ibor_up, zeros_disc_up, val_up,
                   zeros_ibor_dn, zeros_disc_dn, val_dn, dv01_per_1m, gamma_val, q3,
                   y_vals, M, rate_9y_spline, q4, q_curve, q_call, q_rate, q_df>>

\* the +1bp shock written into the base curves themselves
ShockUpInPlace ==
    /\ pc = "shock_up"
    /\ zeros_ibor' = ShockedCurve(zeros_ibor, BP)
    /\ zeros_disc' = ShockedCurve(zeros_disc, BP)
    /\ zeros_ibor_up' = zeros_ibor'
    /\ zeros_disc_up' = zeros_disc'
    /\ val_up' = value_existing_swap(rate_9y, Maturity, Curves(zeros_ibor_up', zeros_disc_up'))
    /\ pc' = "shock_dn"
    /\ UNCHANGED <<rates_input, todo, tenor, low, high, iter,
                   temp_ibor, temp_disc, rate_9y, val_base,
                   zeros_ibor_dn, zeros_disc_dn, val_dn, dv01_per_1m, gamma_val, q3,
                   y_vals, M, rate_9y_spline, q4, q_curve, q_call, q_rate, q_df>>

\* lines 138-140
ShockUp ==
    /\ pc = "shock_up"
    /\ zeros_ibor_up' = ShockedCurve(zeros_ibor, BP)
    /\ zeros_disc_up' = ShockedCurve(zeros_disc, BP)
    /\ val_up' = value_existing_swap(rate_9y, Maturity, Curves(zeros_ibor_up', zeros_disc_up'))
    /\ pc' = "shock_dn"
    /\ UNCHANGED <<rates_input, zeros_ibor, zeros_disc, todo, tenor, low, high, iter,
                   temp_ibor, temp_disc, rate_9y, val_base,
                   zeros_ibor_dn, zeros_disc_dn, val_dn, dv01_per_1m, gamma_val, q3,
                   y_vals, M, rate_9y_spline, q4, q_curve, q_call, q_rate, q_df>>

\* lines 142-144
ShockDown ==
    /\ pc = "shock_dn"
    /\ zeros_ibor_dn' = ShockedCurve(zeros_ibor, -BP)
    /\ zeros_disc_dn' = ShockedCurve(zeros_disc, -BP)
    /\ val_dn' = value_existing_swap(rate_9y, Maturity, Curves(zeros_ibor_dn', zeros_disc_dn'))
    /\ pc' = "risk"
    /\ UNCHANGED <<rates_input, zeros_ibor, zeros_disc, todo, tenor, low, high, iter,
                   temp_ibor, temp_disc, rate_9y, val_base,
                   zeros_ibor_up, zeros_disc_up, val_up, dv01_per_1m, gamma_val, q3,
                   y_vals, M, rate_9y_spline, q4, q_curve, q_call, q_rate, q_df>>

\* lines 146-147
Risk ==
    /\ pc = "risk"
    /\ dv01_per_1m' = TimesNotional(val_up - val_base)
    /\ gamma_val' = GammaOf(val_up, val_base, val_dn)
    /\ pc' = "q3"
    /\ UNCHANGED <<rates_input, zeros_ibor, zeros_disc, todo, tenor, low, high, iter,
                   temp_ibor, temp_disc, rate_9y, val_base, zeros_ibor_up, zeros_disc_up,
                   val_up, zeros_ibor_dn, zeros_disc_dn, val_dn, q3,
                   y_vals, M, rate_9y_spline, q4, q_curve, q_call, q_rate, q_df>>

(***************************************************************************)
(* Question 3: the swap three months later (lines 159-193)                 *)
(***************************************************************************)
\* for t_orig in range(1, 10): t_new = t_orig - 0.25
RECURSIVE q3_pv_fix(_, _, _)
q3_pv_fix(t_orig, fixed_coupon, disc) ==
    IF t_orig < 1 THEN 0
    ELSE q3_pv_fix(t_orig - 1, fixed_coupon, disc)
         + Mul(fixed_coupon, get_df(Q(t_orig) - 1, disc))

\* for i in range(2, 19): t_new = i*0.5 - 0.25, t_start = t_new - 0.5
RECURSIVE q3_pv_float(_, _)
q3_pv_float(i, disc) ==
    IF i < 2 THEN Mul(fixing_6m \div 2, get_df(2 - 1, disc))
    ELSE LET t_new == 2 * i - 1
             t_start == t_new - 2
             t_end == t_new
             df_c == get_df(t_end, disc)
             df_p == get_df(t_start, disc)
             df_c_i == Mul(df_c, SpreadFactor(t_end))
             df_p_i == Mul(df_p, SpreadFactor(t_start))
             fwd == (Div(df_p_i, df_c_i) - ONE) * 2
         IN  q3_pv_float(i - 1, disc) + Mul(fwd \div 2, df_c)

\* price_q3 with the two accruals applied the wrong way round
price_q3_swapped(fixed_coupon, curves) ==
    LET pv_fix == q3_pv_fix(9, fixed_coupon, curves.disc)
        pv_float == q3_pv_float(18, curves.disc)
        pv_dirty == TimesNotional(pv_fix - pv_float)
        acc_fix == TimesNotional(fixed_coupon) \div 4
        acc_float == TimesNotional(fixing_6m) \div 4
        pv_clean == pv_dirty + acc_fix - acc_float
    IN  [acc_fix |-> acc_fix, acc_float |-> acc_float,
         pv_dirty |-> pv_dirty, pv_clean |-> pv_clean]

price_q3(fixed_coupon, curves) ==
    LET pv_fix == q3_pv_fix(9, fixed_coupon, curves.disc)
        pv_float == q3_pv_float(18, curves.disc)
        pv_dirty == TimesNotional(pv_fix - pv_float)
        acc_fix == TimesNotional(fixed_coupon) \div 4
        acc_float == TimesNotional(fixing_6m) \div 4
        pv_clean == pv_dirty - acc_fix + acc_float
    IN  [acc_fix |-> acc_fix, acc_float |-> acc_float,
         pv_dirty |-> pv_dirty, pv_clean |-> pv_clean]

\* line 193
PriceQ3 ==
    /\ pc = "q3"
    /\ q3' = price_q3(rate_9y, Curves(zeros_ibor, zeros_disc))
    /\ pc' = "spline"
    /\ UNCHANGED <<rates_input, zeros_ibor, zeros_disc, todo, tenor, low, high, iter,
                   temp_ibor, temp_disc, rate_9y, val_base, zeros_ibor_up, zeros_disc_up,
                   val_up, zeros_ibor_dn, zeros_disc_dn, val_dn, dv01_per_1m, gamma_val,
                   y_vals, M, rate_9y_spline, q4, q_curve, q_call, q_rate, q_df>>

(***************************************************************************)
(* Question 4: natural cubic spline (lines 206-300)                        *)
(***************************************************************************)
\* knots = [0.0, 0.5, 1.0, 2.0, 3.0, 5.0, 7.0, 10.0] in quarters, from index 0
knots == [i \in 0..7 |-> <<0, 2, 4, 8, 12, 20, 28, 40>>[i + 1]]

\* n = len(knots) - 1, dim = len(knots) - 2
n == 7
dim == 6

\* h = np.diff(knots), in quarters
h == [i \in 0..(n - 1) |-> knots[i + 1] - knots[i]]

\* y_vals = [fixing_6m] + [zeros_ibor[t] for t in knots[1:]]
SplineValues(ibor) == [i \in 0..n |-> IF i = 0 THEN fixing_6m ELSE ibor[knots[i]]]

mu == [j \in 0..(dim - 1) |-> Div(h[j] * ONE, (h[j] + h[j + 1]) * ONE)]
lam == [j \in 0..(dim - 1) |-> Div(h[j + 1] * ONE, (h[j] + h[j + 1]) * ONE)]

\* d = 6 * ((y[2:] - y[1:-1]) / h[1:] - (y[1:-1] - y[:-2]) / h[:-1]) / (h[:-1] + h[1:])
SplineRhs(y) ==
    [j \in 0..(dim - 1) |->
        LET right == ((y[j + 2] - y[j + 1]) * 4) \div h[j + 1]
            left  == ((y[j + 1] - y[j]) * 4) \div h[j]
        IN  (6 * (right - left) * 4) \div (h[j] + h[j + 1])]

\* np.linalg.solve(A, d) for the tridiagonal A with diagonal 2, upper
\* diagonal lam[:-1] and lower diagonal mu[1:]: LU elimination; A is
\* diagonally dominant, so no rows are exchanged.
RECURSIVE SolveU(_)
SolveU(i) ==
    IF i = 0 THEN 2 * ONE
    ELSE 2 * ONE - Mul(Div(mu[i], SolveU(i - 1)), lam[i - 1])

RECURSIVE SolveForward(_, _)
SolveForward(rhs, i) ==
    IF i = 0 THEN rhs[0]
    ELSE rhs[i] - Mul(Div(mu[i], SolveU(i - 1)), SolveForward(rhs, i - 1))

RECURSIVE SolveBack(_, _)
SolveBack(rhs, i) ==
    IF i = dim - 1 THEN Div(SolveForward(rhs, i), SolveU(i))
    ELSE Div(SolveForward(rhs, i) - Mul(lam[i], SolveBack(rhs, i + 1)), SolveU(i))

\* M = np.concatenate(([0], M_internal, [0]))
SplineM(y) ==
    LET rhs == SplineRhs(y)
    IN  [i \in 0..n |-> IF i = 0 \/ i = n THEN 0 ELSE SolveBack(rhs, i - 1)]

\* np.searchsorted(knots, t): the number of knots below t
searchsorted(t) == Cardinality({i \in 0..n : knots[i] < t})

Clamp(x, lo, hi) == IF x < lo THEN lo ELSE IF x > hi THEN hi ELSE x

\* the spline with the sign of the curvature term of b turned round
spline_rate_wrong_b(t, y, m) ==
    IF t <= knots[0] THEN y[0]
    ELSE IF t >= knots[n] THEN y[n]
    ELSE LET idx == Clamp(searchsorted(t) - 1, 0, n - 1)
             xi == knots[idx]
             hi == h[idx]
             im1 == idx + 1
             a == y[idx]
             b == ((y[im1] - y[idx]) * 4) \div hi + (hi * (2 * m[idx] + m[im1])) \div 24
             c == m[idx] \div 2
             d_coef == ((m[im1] - m[idx]) * 4) \div (6 * hi)
             dx == t - xi
         IN  a + (b * dx) \div 4 + (c * dx * dx) \div 16 + (d_coef * dx * dx * dx) \div 64

\* get_spline_rate (lines 229-246) over the knot values y and second
\* derivatives m; t in quarters
spline_rate(t, y, m) ==
    IF t <= knots[0] THEN y[0]
    ELSE IF t >= knots[n] THEN y[n]
    ELSE LET idx == Clamp(searchsorted(t) - 1, 0, n - 1)
             xi == knots[idx]
             hi == h[idx]
             im1 == idx + 1
             a == y[idx]
             b == ((y[im1] - y[idx]) * 4) \div hi - (hi * (2 * m[idx] + m[im1])) \div 24
             c == m[idx] \div 2
             d_coef == ((m[im1] - m[idx]) * 4) \div (6 * hi)
             dx == t - xi
         IN  a + (b * dx) \div 4 + (c * dx * dx) \div 16 + (d_coef * dx * dx * dx) \div 64

get_spline_rate(t) == spline_rate(t, y_vals, M)

\* get_df_spline (lines 248-251)
df_spline(t, spread, y, m) ==
    LET r_ibor == spline_rate(t, y, m)
        r_disc == r_ibor + spread
    IN  Exp((-r_disc * t) \div 4)

get_df_spline(t, spread) == df_spline(t, spread, y_vals, M)

\* lines 254-264
RECURSIVE pv_float_s(_)
pv_float_s(i) ==
    IF i < 2 THEN Mul(fixing_6m \div 2, get_df_spline(2, spread_discount))
    ELSE LET t_c == 2 * i
             t_p == 2 * (i - 1)
             df_c == get_df_spline(t_c, spread_discount)
             df_p == get_df_spline(t_p, spread_discount)
             df_c_i == Mul(df_c, SpreadFactor(t_c))
             df_p_i == Mul(df_p, SpreadFactor(t_p))
             fwd == (Div(df_p_i, df_c_i) - ONE) * 2
         IN  pv_float_s(i - 1) + Mul(fwd \div 2, df_c)

\* lines 266-268
RECURSIVE pv_fix_s(_)
pv_fix_s(t) ==
    IF t < 1 THEN 0
    ELSE pv_fix_s(t - 1) + get_df_spline(Q(t), spread_discount)

\* lines 273-276
RECURSIVE pv_fix_q3_s(_, _)
pv_fix_q3_s(t_orig, fixed) ==
    IF t_orig < 1 THEN 0
    ELSE pv_fix_q3_s(t_orig - 1, fixed)
         + Mul(fixed, get_df_spline(Q(t_orig) - 1, spread_discount))

\* lines 278-291
RECURSIVE pv_float_q3_s(_)
pv_float_q3_s(i) ==
    IF i < 2 THEN Mul(fixing_6m \div 2, get_df_spline(2 - 1, spread_discount))
    ELSE LET t_new == 2 * i - 1
             t_end == t_new
             t_start == t_new - 2
             df_c == get_df_spline(t_end, spread_discount)
             df_p == get_df_spline(t_start, spread_discount)
             df_c_i == Mul(df_c, SpreadFactor(t_end))
             df_p_i == Mul(df_p, SpreadFactor(t_start))
             fwd == (Div(df_p_i, df_c_i) - ONE) * 2
         IN  pv_float_q3_s(i - 1) + Mul(fwd \div 2, df_c)

\* lines 206-227: the knot values and the second derivatives
BuildSpline ==
    /\ pc = "spline"
    /\ y_vals' = SplineValues(zeros_ibor)
    /\ M' = SplineM(y_vals')
    /\ pc' = "spline_rate"
    /\ UNCHANGED <<rates_input, zeros_ibor, zeros_disc, todo, tenor, low, high, iter,
                   temp_ibor, temp_disc, rate_9y, val_base, zeros_ibor_up, zeros_disc_up,
                   val_up, zeros_ibor_dn, zeros_disc_dn, val_dn, dv01_per_1m, gamma_val,
                   q3, rate_9y_spline, q4, q_curve, q_call, q_rate, q_df>>

\* lines 254-270
SplineParRate ==
    /\ pc = "spline_rate"
    /\ rate_9y_spline' = Div(pv_float_s(18), pv_fix_s(9))
    /\ pc' = "spline_pv"
    /\ UNCHANGED <<rates_input, zeros_ibor, zeros_disc, todo, tenor, low, high, iter,
                   temp_ibor, temp_disc, rate_9y, val_base, zeros_ibor_up, zeros_disc_up,
                   val_up, zeros_ibor_dn, zeros_disc_dn, val_dn, dv01_per_1m, gamma_val,
                   q3, y_vals, M, q4, q_curve, q_call, q_rate, q_df>>

\* lines 273-300
SplineCleanPV ==
    /\ pc = "spline_pv"
    /\ LET pv_dirty_s == TimesNotional(pv_fix_q3_s(9, rate_9y_spline) - pv_float_q3_s(18))
           acc_fix_s == TimesNotional(rate_9y_spline) \div 4
           acc_float_s == TimesNotional(fixing_6m) \div 4
           pv_clean_q3_s == pv_dirty_s - acc_fix_s + acc_float_s
       IN  q4' = [acc_fix |-> acc_fix_s, acc_float |-> acc_float_s,
                  pv_dirty |-> pv_dirty_s, pv_clean |-> pv_clean_q3_s]
    /\ pc' = "done"
    /\ UNCHANGED <<rates_input, zeros_ibor, zeros_disc, todo, tenor, low, high, iter,
                   temp_ibor, temp_disc, rate_9y, val_base, zeros_ibor_up, zeros_disc_up,
                   val_up, zeros_ibor_dn, zeros_disc_dn, val_dn, dv01_per_1m, gamma_val,
                   q3, y_vals, M, rate_9y_spline, q_curve, q_call, q_rate, q_df>>

(***************************************************************************)
(* get_df and get_df_spline as functions of their arguments: a curve is    *)
(* given, and discount factors are asked of it at arbitrary times.         *)
(***************************************************************************)
\* the knot times of a bootstrapped curve: knots[1:]
CurveTimes == {knots[i] : i \in 1..n}

CurveOf(rates) == [t \in CurveTimes |-> rates[CHOOSE i \in 1..n : knots[i] = t]]

QueryCurves ==
    { (2 :> 41100),
      (2 :> 41100) @@ (4 :> 40814) @@ (8 :> 36696),
      CurveOf(<<41100, 40814, 36696, 34196, 31485, 30490, 30220>>),
      CurveOf(<<41100, 99999, 99999, 99999, 99999, 99999, 99999>>),
      CurveOf(<<20000, 25000, 0, 60000, 10000, 10000, 35000>>),
      CurveOf(<<-5000, -2500, 1000, 4000, 12000, 15000, 21000>>) }

\* query times, in quarters
MaxTimeBefore == 4
MaxQueryTime == 44
QueryTimes == (-MaxTimeBefore)..MaxQueryTime

HasSplineKnots(curve) == DOMAIN curve = CurveTimes

QueryInit ==
    /\ q_curve \in QueryCurves
    /\ q_call = NoCall
    /\ q_rate = 0
    /\ q_df = 0
    /\ y_vals = IF HasSplineKnots(q_curve) THEN SplineValues(q_curve) ELSE <<>>
    /\ M = IF HasSplineKnots(q_curve) THEN SplineM(SplineValues(q_curve)) ELSE <<>>
    /\ rates_input = QuotesLiteral
    /\ zeros_ibor = q_curve
    /\ zeros_disc = ShockedCurve(q_curve, spread_discount)
    /\ pc = "query"
    /\ todo = <<>>
    /\ tenor = 0
    /\ low = BracketLow
    /\ high = BracketHigh
    /\ iter = 0
    /\ temp_ibor = EmptyCurve
    /\ temp_disc = EmptyCurve
    /\ rate_9y = 0
    /\ val_base = 0
    /\ zeros_ibor_up = EmptyCurve
    /\ zeros_disc_up = EmptyCurve
    /\ val_up = 0
    /\ zeros_ibor_dn = EmptyCurve
    /\ zeros_disc_dn = EmptyCurve
    /\ val_dn = 0
    /\ dv01_per_1m = 0
    /\ gamma_val = 0
    /\ q3 = NoResult
    /\ rate_9y_spline = 0
    /\ q4 = NoResult

programVars ==
    <<rates_input, zeros_ibor, zeros_disc, pc, todo, tenor, low, high, iter,
      temp_ibor, temp_disc, rate_9y, val_base, zeros_ibor_up, zeros_disc_up, val_up,
      zeros_ibor_dn, zeros_disc_dn, val_dn, dv01_per_1m, gamma_val, q3,
      y_vals, M, rate_9y_spline, q4>>

\* get_df(t, q_curve) (lines 19-33): no path of it raises for a non-empty curve
QueryDf(t) ==
    /\ pc = "query"
    /\ q_call' = [routine |-> "get_df", t |-> t, outcome |-> "returned"]
    /\ q_rate' = get_rate(t, q_curve)
    /\ q_df' = get_df(t, q_curve)
    /\ UNCHANGED <<q_curve, programVars>>

\* get_df_spline(t) with the spline fitted to q_curve (lines 229-251): no
\* path of it raises
QueryDfSpline(t) ==
    /\ pc = "query"
    /\ HasSplineKnots(q_curve)
    /\ q_call' = [routine |-> "get_df_spline", t |-> t, outcome |-> "returned"]
    /\ q_rate' = get_spline_rate(t)
    /\ q_df' = get_df_spline(t, 0)
    /\ UNCHANGED <<q_curve, programVars>>

QueryNext ==
    \/ \E t \in QueryTimes : QueryDf(t)
    \/ \E t \in QueryTimes : QueryDfSpline(t)

vars == <<rates_input, zeros_ibor, zeros_disc, pc, todo, tenor, low, high, iter,
          temp_ibor, temp_disc, rate_9y, val_base, zeros_ibor_up, zeros_disc_up, val_up,
          zeros_ibor_dn, zeros_disc_dn, val_dn, dv01_per_1m, gamma_val, q3,
          y_vals, M, rate_9y_spline, q4, q_curve, q_call, q_rate, q_df>>

Next ==
    \/ NextTenor
    \/ BisectStep
    \/ StoreSolved
    \/ ParRate9y
    \/ ValueBase
    \/ ShockUp
    \/ ShockDown
    \/ Risk
    \/ PriceQ3
    \/ BuildSpline
    \/ SplineParRate
    \/ SplineCleanPV

Spec == Init /\ [][Next]_vars

QuerySpec == QueryInit /\ [][QueryNext]_vars

(***************************************************************************)
(* Properties                                                              *)
(***************************************************************************)
\* |PV| below which the par condition counts as met, in millionths of the
\* notional: the change of objective over one step of the rate grid plus the
\* rounding of its terms.
PvTol == 25

\* the tenors whose solved rate is in the curve
StoredTenors == {T \in DOMAIN rates_input : Q(T) \in DOMAIN zeros_ibor}

\* the curve points the bootstrap holds while it solves tenor T
PointsBelow(T) == {2} \cup {Q(k) : k \in {x \in DOMAIN rates_input : x < T}}

IsAscending(seq) == \A a, b \in 1..Len(seq) : a < b => seq[a] < seq[b]

\* C1: the bootstrap visits the quoted tenors in strictly ascending order, one
\* at a time.  While tenor T is being solved the curves hold exactly the
\* 6-month point and the quoted tenors shorter than T, the curve objective
\* evaluates holds those and the trial point at T, the tenors still to visit
\* are exactly the longer ones in ascending order, and when the loop is back
\* at its head the rate of T is stored in both curves.
C1_SequentialBootstrap ==
    /\ pc \in {"bisect", "store"} =>
          /\ tenor \in DOMAIN rates_input
          /\ DOMAIN zeros_ibor = PointsBelow(tenor)
          /\ DOMAIN zeros_disc = PointsBelow(tenor)
          /\ IsAscending(todo)
          /\ {todo[k] : k \in 1..Len(todo)} = {x \in DOMAIN rates_input : x > tenor}
          /\ (iter > 0 \/ pc = "store") =>
                /\ DOMAIN temp_ibor = PointsBelow(tenor) \cup {Q(tenor)}
                /\ DOMAIN temp_disc = PointsBelow(tenor) \cup {Q(tenor)}
    /\ (pc = "loop" /\ tenor # 0) =>
          /\ DOMAIN zeros_ibor = PointsBelow(tenor) \cup {Q(tenor)}
          /\ DOMAIN zeros_disc = PointsBelow(tenor) \cup {Q(tenor)}
          /\ {todo[k] : k \in 1..Len(todo)} = {x \in DOMAIN rates_input : x > tenor}

\* C1 witness: the third quoted tenor is being solved, some iterations in
C1_Witness ==
    /\ pc = "bisect"
    /\ iter > 0
    /\ Cardinality(StoredTenors) = 2
    /\ Q(tenor) \in DOMAIN temp_disc

\* C2: once the rate of a tenor is stored, objective at the stored rate is
\* zero within the tolerance (the par condition holds).
C2_ParConditionHolds ==
    pc = "loop" =>
        \A T \in StoredTenors :
            Abs(objective(zeros_ibor[Q(T)], T, rates_input[T])) <= PvTol

\* C6: a solve that has used up its iterations without objective meeting the
\* tolerance does not store its rate and go on to the next tenor.
C6_NonConvergenceIsSurfaced ==
    [][ ( /\ pc = "store"
          /\ iter = MaxIter
          /\ Abs(objective((low + high) \div 2, tenor, rates_input[tenor])) > PvTol )
        => (zeros_ibor' = zeros_ibor /\ zeros_disc' = zeros_disc /\ pc' # "loop") ]_vars

\* |rate| by which a recomputed par rate may differ from its quote
RateTol == 10

\* the points of curve at times up to t
UpTo(curve, t) == [x \in {k \in DOMAIN curve : k <= t} |-> curve[x]]

BaseCurves == Curves(zeros_ibor, zeros_disc)

\* C3: on the finished curves price_swap_par_rate(T) gives back the quote of
\* every quoted tenor T within the tolerance, and its float-leg PV and annuity
\* are the ones objective has for T at the solved rate on the curve built up
\* to T.
C3_ParRateRoundTrip ==
    pc = "val_base" =>
        \A T \in DOMAIN rates_input :
            /\ Abs(price_swap_par_rate(T, BaseCurves) - rates_input[T]) <= RateTol
            /\ par_pv_float(2 * T, zeros_disc)
                   = objective_pv_float(2 * T, UpTo(zeros_disc, Q(T)))
            /\ Mul(rates_input[T], par_pv01(T, zeros_disc))
                   - objective_pv_fix(T, rates_input[T], UpTo(zeros_disc, Q(T))) \in -T..T

\* C4: the +1bp and -1bp curves come from a bootstrap of the shifted par
\* rates: their 6-month point is the unshocked fixing, and they are not the
\* base zero rates moved in parallel.
C4_ShockedCurvesAreRebootstrapped ==
    pc \in {"risk", "q3", "spline", "spline_rate", "spline_pv", "done"} =>
        /\ zeros_ibor_up[2] = fixing_6m
        /\ zeros_ibor_dn[2] = fixing_6m
        /\ zeros_disc_up[2] = fixing_6m + spread_discount
        /\ zeros_disc_dn[2] = fixing_6m + spread_discount
        /\ zeros_ibor_up # ShockedCurve(zeros_ibor, BP)
        /\ zeros_ibor_dn # ShockedCurve(zeros_ibor, -BP)

\* C5: gamma is the plain second difference of the three PVs times the
\* notional.
C5_GammaIsPlainSecondDifference ==
    pc \in {"q3", "spline", "spline_rate", "spline_pv", "done"} =>
        gamma_val = TimesNotional(val_up - 2 * val_base + val_dn)

\* C7: no discount-factor routine returns a value for a negative time.
C7_NegativeTimeRejected ==
    q_call.outcome = "returned" => q_call.t >= 0

\* C8: evaluating objective leaves zeros_ibor and zeros_disc as they are, and
\* so does every step after the bootstrap; only the store of a solved rate
\* changes them.
C8_BuiltCurvesNotMutated ==
    [][ pc # "store" => (zeros_ibor' = zeros_ibor /\ zeros_disc' = zeros_disc) ]_vars

\* C8 witness: both shocked curve pairs exist beside the base curves, which
\* still hold the bootstrapped points
C8_Witness ==
    /\ pc = "done"
    /\ DOMAIN zeros_ibor = CurveTimes
    /\ zeros_ibor_up # zeros_ibor
    /\ zeros_disc_dn # zeros_disc
    /\ DOMAIN temp_ibor = CurveTimes

\* time elapsed at the seasoned valuation and the payment periods of the two
\* legs, in quarters
Elapsed == 1
FixedPeriod == 4
FloatPeriod == 2

RECURSIVE SumTo(_, _)
SumTo(f, k) == IF k < 1 THEN 0 ELSE SumTo(f, k - 1) + f[k]

\* (fixed-leg PV - float-leg PV) * notional over the cash-flow times moved
\* back by the elapsed time, for the discount-factor routine Df
ShiftedDirtyPV(fixed, Df(_)) ==
    LET fix == [t \in 1..Maturity |-> Mul(fixed, Df(Q(t) - Elapsed))]
        flt == [i \in 1..(2 * Maturity) |->
                   IF i = 1 THEN Mul(fixing_6m \div 2, Df(2 - Elapsed))
                   ELSE LET t_end == 2 * i - Elapsed
                            t_start == 2 * (i - 1) - Elapsed
                            ibor_end == Mul(Df(t_end), SpreadFactor(t_end))
                            ibor_start == Mul(Df(t_start), SpreadFactor(t_start))
                        IN  Mul(Div(ibor_start, ibor_end) - ONE, Df(t_end))]
    IN  TimesNotional(SumTo(fix, Maturity) - SumTo(flt, 2 * Maturity))

LinearDf(t) == get_df(t, zeros_disc)
SplineDf(t) == get_df_spline(t, spread_discount)

\* rate * notional * (elapsed / period), in whole dollars
AccrualOver(rate, period) == (TimesNotional(rate) * Elapsed) \div period

SplineTol == 12

KnotIndex(t) == CHOOSE i \in 0..n : knots[i] = t
IsKnot(t) == \E i \in 0..n : knots[i] = t

\* C10 as claimed: at every knot time both interpolators return exactly the
\* knot's rate.
C10_InterpolatorsExactAtKnots ==
    /\ (q_call.routine = "get_df" /\ q_call.t \in DOMAIN q_curve) =>
            q_rate = q_curve[q_call.t]
    /\ (q_call.routine = "get_df_spline" /\ IsKnot(q_call.t)) =>
            q_rate = y_vals[KnotIndex(q_call.t)]

\* C10 as amended: the linear interpolator returns exactly the knot rate at
\* every knot; the spline returns exactly the knot value at the first and
\* the last knot and the knot value within rounding at the knots between.
C10_KnotsReproduced ==
    /\ (q_call.routine = "get_df" /\ q_call.t \in DOMAIN q_curve) =>
            q_rate = q_curve[q_call.t]
    /\ (q_call.routine = "get_df_spline" /\ IsKnot(q_call.t)) =>
            IF q_call.t = knots[0] \/ q_call.t = knots[n]
            THEN q_rate = y_vals[KnotIndex(q_call.t)]
            ELSE Abs(q_rate - y_vals[KnotIndex(q_call.t)]) <= SplineTol

\* C10 witness: the spline was asked for an inner knot whose value differs
\* from both neighbours'
C10_Witness ==
    /\ q_call.routine = "get_df_spline"
    /\ IsKnot(q_call.t)
    /\ q_call.t # knots[0] /\ q_call.t # knots[n]
    /\ y_vals[KnotIndex(q_call.t)] # y_vals[KnotIndex(q_call.t) - 1]
    /\ y_vals[KnotIndex(q_call.t)] # y_vals[KnotIndex(q_call.t) + 1]

\* smallest zero rate and forward rate, in millionths, whose effect on r * t
\* over one quarter shows in the discount factor (one basis point)
MinForward == 100

\* the knot after t1 in curve
NextKnot(curve, t1) == MinOf({x \in DOMAIN curve : x > t1})

NonNegativeRates(curve) == \A k \in DOMAIN curve : curve[k] >= 0

\* every zero rate is positive and on every segment between adjacent knots
\* (t1, r1), (t2, r2) the forward rate at the right end,
\* r2 + t2 * (r2 - r1) / (t2 - t1), is positive
PositiveForwards(curve) ==
    /\ \A k \in DOMAIN curve : curve[k] >= MinForward
    /\ \A t1 \in DOMAIN curve :
          t1 # MaxOf(DOMAIN curve) =>
              LET t2 == NextKnot(curve, t1)
              IN  curve[t2] * (t2 - t1) + t2 * (curve[t2] - curve[t1])
                      >= MinForward * (t2 - t1)

\* two calls of get_df on the same curve, the second at the later time
LaterQuery ==
    /\ q_call.routine = "get_df"
    /\ q_call'.routine = "get_df"
    /\ 0 <= q_call.t
    /\ q_call.t < q_call'.t

\* C11 as claimed: on a curve whose zero rates are all non-negative the
\* discount factor is strictly decreasing in t: of two query times
\* 0 <= s < t the later one has the larger rate * t and the smaller
\* discount factor.
C11_DfDecreasingIfNonNegative ==
    [][ (LaterQuery /\ NonNegativeRates(q_curve))
            => (q_rate' * q_call'.t > q_rate * q_call.t /\ q_df' < q_df) ]_vars

\* C11 as amended: on a curve whose zero rates are all positive and whose
\* forward rate is positive at the right end of every segment (as it is
\* whenever the rates do not decrease with t) the discount factor is
\* strictly decreasing in t: of two query times 0 <= s < t the later one has
\* the larger rate * t and the smaller discount factor.
C11_DfDecreasingIfForwardsPositive ==
    [][ (LaterQuery /\ PositiveForwards(q_curve))
            => (q_rate' * q_call'.t > q_rate * q_call.t /\ q_df' < q_df) ]_vars

\* C11 witness: a curve with positive forwards whose zero rates fall
\* somewhere was asked for a discount factor strictly between two knots
C11_Witness ==
    /\ q_call.routine = "get_df"
    /\ PositiveForwards(q_curve)
    /\ \E a, b \in DOMAIN q_curve :
          a < q_call.t /\ q_call.t < b /\ q_curve[b] < q_curve[a]
    /\ q_call.t \notin DOMAIN q_curve
    /\ q_df < ONE

DfTol == 3

\* the pairs of an IBOR curve and its discount curve the program holds
CurvePairs ==
    { <<zeros_ibor, zeros_disc>>, <<temp_ibor, temp_disc>>,
      <<zeros_ibor_up, zeros_disc_up>>, <<zeros_ibor_dn, zeros_disc_dn>> }

\* ibor and disc have the same knots, disc = ibor + spread at every knot and
\* at every time read off the curves, and the discount factor of disc times
\* exp(spread * t) is the discount factor of ibor within tol
SpreadRelation(ibor, disc, tol) ==
    /\ DOMAIN disc = DOMAIN ibor
    /\ \A k \in DOMAIN ibor : disc[k] = ibor[k] + spread_discount
    /\ DOMAIN ibor # {} =>
          \A t \in 0..MaxQueryTime :
              /\ get_rate(t, disc) = get_rate(t, ibor) + spread_discount
              /\ Abs(Mul(get_df(t, disc), SpreadFactor(t)) - get_df(t, ibor)) <= tol

\* C13 as claimed: every curve pair that exists (the curves during and after
\* the bootstrap, the trial copies of objective, the +1bp and -1bp curves)
\* has the same knots in both curves and discount rate = IBOR rate + spread
\* at every knot and at every interpolated time, and the discount curve's
\* discount factor times exp(spread * t) equals the IBOR curve's discount
\* factor.
C13_ConstantSpreadExact ==
    \A pair \in CurvePairs : SpreadRelation(pair[1], pair[2], 0)

\* C13 as amended: every curve pair that exists has the same knots in both
\* curves and discount rate = IBOR rate + spread at every knot and at every
\* interpolated time, and the discount curve's discount factor times
\* exp(spread * t) is the IBOR curve's discount factor up to rounding.
C13_ConstantSpreadWithinRounding ==
    \A pair \in CurvePairs : SpreadRelation(pair[1], pair[2], DfTol)

\* C13 witness: the finished curves, the last trial copies and both shocked
\* pairs exist, all with the seven knots
C13_Witness ==
    /\ pc = "risk"
    /\ \A pair \in CurvePairs :
          DOMAIN pair[1] = CurveTimes /\ DOMAIN pair[2] = CurveTimes
    /\ zeros_disc_up # zeros_disc
    /\ zeros_disc_dn # zeros_disc

\* C14: a bisection pass never takes iter above 50 and leaves
\* 0 <= low <= high <= 0.10; a pass that does not stop on objective(mid) = 0
\* counts one iteration and halves high - low (to the rate grid), and the
\* 50th ends the loop; a pass that stops on objective(mid) = 0 leaves the
\* bracket as it is.  The rate then stored lies in [0, 0.10], and after a
\* stop on zero it is that mid.
C14_BisectionBracket ==
    [][ /\ pc = "bisect" =>
              LET mid == (low + high) \div 2
                  width == high - low
              IN  /\ iter' <= MaxIter
                  /\ BracketLow <= low' /\ low' <= high' /\ high' <= BracketHigh
                  /\ iter' = MaxIter => pc' = "store"
                  /\ IF objective(mid, tenor, rates_input[tenor]) = 0
                     THEN low' = low /\ high' = high /\ iter' = iter /\ pc' = "store"
                     ELSE /\ iter' = iter + 1
                          /\ 2 * (high' - low') \in {width - 1, width, width + 1}
        /\ pc = "store" =>
              LET stored == zeros_ibor'[Q(tenor)]
              IN  /\ BracketLow <= stored /\ stored <= BracketHigh
                  /\ iter < MaxIter =>
                        /\ stored = (low + high) \div 2
                        /\ objective(stored, tenor, rates_input[tenor]) = 0 ]_vars

\* C14 witness: a solve stopped on objective(mid) = 0 after some halvings
\* and its mid is in the curve
C14_Witness ==
    /\ pc = "loop"
    /\ tenor # 0
    /\ 0 < iter /\ iter < MaxIter
    /\ low < high
    /\ zeros_ibor[Q(tenor)] = (low + high) \div 2

====
